---- MODULE Spec2Model ----
(***************************************************************************)
(* Model of the video transcriber backend: app.py (routes, the per-request *)
(* transcription pipeline, format_transcript), notifications.py (channel   *)
(* drivers), models.py (User, Transcript) and config.py (SMS_GATEWAYS).    *)
(*                                                                         *)
(* Python strings that the code inspects character by character are        *)
(* sequences of one-character strings; strings the code only passes on or  *)
(* compares as a whole are TLA+ strings.                                   *)
(***************************************************************************)
EXTENDS Integers, Sequences, FiniteSets, TLC

VARIABLES
    users,           \* table users: row i has id i              (models.py:13-38)
    transcripts,     \* table transcripts: row i has id i        (models.py:41-59)
    current_user,    \* per client session: the logged-in user id, or NoUser
    _whisper_model,  \* the lazily loaded model                  (app.py:41)
    response,        \* the last response a route handler gave, with what it did
    fmt,             \* format_transcript applied as a pure function
    sms,             \* send_sms applied as a pure function
    threads          \* the request threads inside transcribe_audio, step by step

vars == <<users, transcripts, current_user, _whisper_model, response, fmt, sms, threads>>

(***************************************************************************)
(* Bounds of the model.                                                    *)
(***************************************************************************)
MaxSegments == 2
MaxSegmentLen == 3
MaxTextLen == 4
MaxUsers == 2
MaxTranscripts == 2
MaxPrefixLen == 2
MaxHistoryRows == 24
MaxThreads == 3

SeqsUpTo(S, n) == UNION {[1..k -> S] : k \in 0..n}

MinOf(S) == CHOOSE x \in S : \A y \in S : x <= y

MaxOf(S) == CHOOSE x \in S : \A y \in S : x >= y

(***************************************************************************)
(* Python str helpers, computed as CPython computes them.                  *)
(***************************************************************************)
\* str.isspace() on the characters of the model's alphabets
IsSpace(c) == c \in {" ", "\n", "\t"}

RECURSIVE lstrip(_)
lstrip(s) == IF s # <<>> /\ IsSpace(Head(s)) THEN lstrip(Tail(s)) ELSE s

RECURSIVE rstrip(_)
rstrip(s) == IF s # <<>> /\ IsSpace(s[Len(s)]) THEN rstrip(SubSeq(s, 1, Len(s) - 1)) ELSE s

\* str.strip()
strip(s) == rstrip(lstrip(s))

\* str.replace(old, new): leftmost non-overlapping occurrences, old non-empty
RECURSIVE replace(_, _, _)
replace(s, old, new) ==
    IF Len(s) < Len(old) THEN s
    ELSE IF SubSeq(s, 1, Len(old)) = old
         THEN new \o replace(SubSeq(s, Len(old) + 1, Len(s)), old, new)
         ELSE <<Head(s)>> \o replace(Tail(s), old, new)

\* str.split(ch) for a one-character separator: empty pieces are kept
RECURSIVE split(_, _)
split(s, ch) ==
    IF \E i \in 1..Len(s) : s[i] = ch
    THEN LET i == CHOOSE k \in 1..Len(s) : s[k] = ch /\ \A j \in 1..(k - 1) : s[j] # ch
         IN  <<SubSeq(s, 1, i - 1)>> \o split(SubSeq(s, i + 1, Len(s)), ch)
    ELSE <<s>>

\* ch.join(pieces)
RECURSIVE join(_, _)
join(pieces, ch) ==
    IF pieces = <<>> THEN <<>>
    ELSE IF Len(pieces) = 1 THEN pieces[1]
    ELSE pieces[1] \o <<ch>> \o join(Tail(pieces), ch)

(***************************************************************************)
(* format_transcript (app.py:149-164).  A transcription result is          *)
(* [segments, text, language]; a segment is its 'text' value; a missing    *)
(* 'segments' / 'text' key is the empty sequence.                          *)
(***************************************************************************)
sentence_separators_2 == << <<".", " ">>, <<"?", " ">> >>

sentence_separators == << <<".", " ">>, <<"?", " ">>, <<"!", " ">> >>

\* for segment in result.get('segments', []): text = strip; if text: append
RECURSIVE segment_lines(_)
segment_lines(segments) ==
    IF segments = <<>> THEN <<>>
    ELSE LET text == strip(Head(segments))
         IN  (IF text # <<>> THEN <<text>> ELSE <<>>) \o segment_lines(Tail(segments))

\* for sep in [...]: text = text.replace(sep, sep + '\n')
RECURSIVE mark_sentences(_, _)
mark_sentences(text, seps) ==
    IF seps = <<>> THEN text
    ELSE mark_sentences(replace(text, Head(seps), Head(seps) \o <<"\n">>), Tail(seps))

\* [line.strip() for line in pieces if line.strip()]
RECURSIVE stripped_nonempty(_)
stripped_nonempty(pieces) ==
    IF pieces = <<>> THEN <<>>
    ELSE (IF strip(Head(pieces)) # <<>> THEN <<strip(Head(pieces))>> ELSE <<>>)
         \o stripped_nonempty(Tail(pieces))

fallback_lines(text) ==
    stripped_nonempty(split(mark_sentences(strip(text), sentence_separators), "\n"))

\* a plausible slip: segment texts appended untrimmed and unfiltered
format_transcript_raw(result) ==
    LET lines == IF result.segments # <<>> THEN result.segments
                 ELSE IF result.text # <<>> THEN fallback_lines(result.text) ELSE <<>>
    IN  join(lines, "\n")

format_transcript(result) ==
    LET seglines == segment_lines(result.segments)
        lines == IF seglines = <<>> /\ result.text # <<>>
                 THEN fallback_lines(result.text)
                 ELSE seglines
    IN  join(lines, "\n")

\* line_count = len(transcript.split('\n'))   (app.py:349)
line_count_of(transcript) == Len(split(transcript, "\n"))

(***************************************************************************)
(* More str helpers.                                                       *)
(***************************************************************************)
UpperLetters == <<"A", "B", "E", "M", "P", "X">>

LowerLetters == <<"a", "b", "e", "m", "p", "x">>

\* str.lower(), on the letters of the model's alphabets
LowerChar(ch) ==
    IF \E i \in 1..Len(UpperLetters) : UpperLetters[i] = ch
    THEN LowerLetters[CHOOSE i \in 1..Len(UpperLetters) : UpperLetters[i] = ch]
    ELSE ch

lower(s) == [i \in 1..Len(s) |-> LowerChar(s[i])]

IsDigit(ch) == ch \in {"0", "1", "2", "3", "4", "5", "6", "7", "8", "9"}

\* ''.join(filter(str.isdigit, s))
RECURSIVE digits_of(_)
digits_of(s) ==
    IF s = <<>> THEN <<>>
    ELSE (IF IsDigit(Head(s)) THEN <<Head(s)>> ELSE <<>>) \o digits_of(Tail(s))

Contains(s, ch) == \E i \in 1..Len(s) : s[i] = ch

\* s.rsplit(ch, 1)[1], for s containing ch: the text after the last ch
after_last(s, ch) ==
    LET i == CHOOSE k \in 1..Len(s) : s[k] = ch /\ \A j \in (k + 1)..Len(s) : s[j] # ch
    IN  SubSeq(s, i + 1, Len(s))

(***************************************************************************)
(* The state after construction (empty tables, nobody logged in, the model *)
(* not loaded, nothing answered yet).                                      *)
(***************************************************************************)
Clients == {1, 2}

NoUser == 0

NoResult == [segments |-> <<>>, text |-> <<>>, language |-> "absent"]

IdleFmt == [pc |-> "idle", result |-> NoResult, out |-> <<>>]

IdleSms == [pc |-> "idle", phone |-> <<>>, carrier |-> <<>>, smtp |-> "ok",
            raised |-> "", to |-> <<>>, sent |-> FALSE]

NoBody == [id |-> 0, url |-> <<>>, text |-> <<>>, language |-> "", line_count |-> 0]

NoSend == [channel |-> "none", to |-> <<>>]

NoSource == [kind |-> "none", name |-> <<>>]

\* the threads that serve requests at the same time
Threads == 1..MaxThreads

\* no thread is inside transcribe_audio, and whisper.load_model has not run:
\* load_count counts its completed calls, each of which builds a new model
\* object, and loaded is the call that built the object _whisper_model holds
IdleThreads ==
    [load_count |-> 0, loaded |-> 0,
     thread |-> [t \in Threads |-> [pc |-> "idle", model |-> 0]]]

\* what a handler answered (status and JSON envelope) and what it did on the way;
\* escaped: the handler raised and the framework answered in its place
Reply(route, user, status, error) ==
    [route |-> route, user |-> user, email |-> <<>>, password |-> <<>>,
     tid |-> 0, method |-> "", recipient |-> <<>>,
     status |-> status, success |-> (error = ""), error |-> error,
     body |-> NoBody, sent |-> NoSend, result |-> NoResult, failed_at |-> "",
     stages |-> <<>>, rmtree_ok |-> TRUE, temp_dir |-> "none",
     history |-> <<>>, escaped |-> FALSE, source |-> NoSource, acquired_by |-> ""]

InitApp ==
    /\ users = <<>>
    /\ transcripts = <<>>
    /\ current_user = [c \in Clients |-> NoUser]
    /\ _whisper_model = "None"
    /\ response = Reply("none", NoUser, 0, "")
    /\ threads = IdleThreads

(***************************************************************************)
(* Accounts: /register, /login, /logout, /profile (app.py:175-295).        *)
(* A request body is a JSON object whose fields are strings; a missing     *)
(* 'email' / 'password' reads as ''.  User.name and User.created_at are     *)
(* written but never read by a handler's decision, and are left out.       *)
(* @login_required is the guard current_user[c] # NoUser.                  *)
(***************************************************************************)
\* if len(password) < 6   (app.py:187)
MinPasswordLen == 6

\* generate_password_hash / check_password_hash   (models.py:29-35)
generate_password_hash(password) == [hash_of |-> password]

check_password_hash(pwhash, password) == pwhash = generate_password_hash(password)

\* User.query.filter_by(email=email).first()
user_by_email(email) ==
    IF \E i \in 1..Len(users) : users[i].email = email
    THEN MinOf({i \in 1..Len(users) : users[i].email = email})
    ELSE NoUser

\* a plausible slip: the submitted email looked up as typed, not normalised
normalize_email_as_typed(email) == email

\* data.get('email', '').strip().lower()   (app.py:180, 216)
normalize_email(email) == lower(strip(email))

\* a plausible slip: len(password) < 6 not checked
password_long_enough_unchecked(password) == TRUE

password_long_enough(password) == ~(Len(password) < MinPasswordLen)

register(c, email_in, password) ==
    LET email == normalize_email(email_in)
        Submitted(user, status, error) ==
            [Reply("register", user, status, error) EXCEPT !.email = email_in,
                                                           !.password = password]
    IN  /\ UNCHANGED <<transcripts, _whisper_model, fmt, sms, threads>>
        /\ IF email = <<>> \/ password = <<>>
           THEN /\ response' = Submitted(NoUser, 400, "Email and password are required")
                /\ UNCHANGED <<users, current_user>>
           ELSE IF ~password_long_enough(password)
           THEN /\ response' = Submitted(NoUser, 400, "Password must be at least 6 characters")
                /\ UNCHANGED <<users, current_user>>
           ELSE IF user_by_email(email) # NoUser
           THEN /\ response' = Submitted(NoUser, 400, "Email already registered")
                /\ UNCHANGED <<users, current_user>>
           ELSE /\ Len(users) < MaxUsers
                /\ users' = Append(users, [email |-> email,
                                           password_hash |-> generate_password_hash(password),
                                           phone |-> <<>>, phone_carrier |-> <<>>,
                                           whatsapp |-> <<>>])
                /\ current_user' = [current_user EXCEPT ![c] = Len(users) + 1]
                /\ response' = Submitted(Len(users) + 1, 200, "")

login(c, email_in, password) ==
    LET email == normalize_email(email_in)
        user == user_by_email(email)
    IN  /\ UNCHANGED <<users, transcripts, _whisper_model, fmt, sms, threads>>
        /\ IF email = <<>> \/ password = <<>>
           THEN /\ response' = Reply("login", NoUser, 400, "Email and password are required")
                /\ UNCHANGED current_user
           ELSE IF user = NoUser \/ ~check_password_hash(users[user].password_hash, password)
           THEN /\ response' = Reply("login", NoUser, 401, "Invalid email or password")
                /\ UNCHANGED current_user
           ELSE /\ current_user' = [current_user EXCEPT ![c] = user]
                /\ response' = Reply("login", user, 200, "")

logout(c) ==
    /\ current_user[c] # NoUser
    /\ current_user' = [current_user EXCEPT ![c] = NoUser]
    /\ response' = Reply("logout", current_user[c], 200, "")
    /\ UNCHANGED <<users, transcripts, _whisper_model, fmt, sms, threads>>

\* data is the set of fields the body carries: 'phone' in data is a domain test
update_profile(c, data) ==
    LET u == current_user[c]
        field(name, old) == IF name \in DOMAIN data THEN strip(data[name]) ELSE old
    IN  /\ u # NoUser
        /\ users' = [users EXCEPT ![u] =
                        [@ EXCEPT !.phone = field("phone", @),
                                  !.phone_carrier = field("phone_carrier", @),
                                  !.whatsapp = field("whatsapp", @)]]
        /\ response' = Reply("profile", u, 200, "")
        /\ UNCHANGED <<transcripts, current_user, _whisper_model, fmt, sms, threads>>

(***************************************************************************)
(* /transcribe (app.py:298-378): the request pipeline.  The inputs are the *)
(* request's source (an uploaded file name, or a URL), the one stage at    *)
(* which the environment makes a call fail (fault), what the speech model  *)
(* returns, and whether shutil.rmtree succeeds.                            *)
(***************************************************************************)
ALLOWED_EXTENSIONS == {<<"m", "p", "3">>, <<"w", "a", "v">>, <<"m", "p", "4">>, <<"m", "4", "a">>, <<"m", "o", "v">>, <<"w", "e", "b", "m">>}

\* a plausible slip: the extension compared without .lower()
allowed_file_case_sensitive(filename) ==
    Contains(filename, ".") /\ after_last(filename, ".") \in ALLOWED_EXTENSIONS

\* allowed_file   (app.py:64-65)
allowed_file(filename) ==
    Contains(filename, ".") /\ lower(after_last(filename, ".")) \in ALLOWED_EXTENSIONS

\* werkzeug.utils.secure_filename on names of letters, digits and dots:
\* leading and trailing "." and "_" are stripped
RECURSIVE secure_filename(_)
secure_filename(filename) ==
    IF filename # <<>> /\ Head(filename) \in {".", "_"} THEN secure_filename(Tail(filename))
    ELSE IF filename # <<>> /\ filename[Len(filename)] \in {".", "_"}
         THEN secure_filename(SubSeq(filename, 1, Len(filename) - 1))
         ELSE filename

FilePrefix == <<"F", "i", "l", "e", ":", " ">>

Faults == {"none", "makedirs", "save", "download", "extract", "load_model", "transcribe",
           "commit"}

\* result.get('language', 'unknown')   (app.py:348)
language_of(result) == IF result.language = "absent" THEN "unknown" ELSE result.language

Outcome(stages, failed_at, status, error) ==
    [stages |-> stages, failed_at |-> failed_at, status |-> status, error |-> error,
     url |-> <<>>, result |-> NoResult, transcript |-> <<>>, language |-> "",
     line_count |-> 0, model |-> _whisper_model, acquired_by |-> ""]

\* a plausible slip: the empty transcript let through
no_speech_unchecked(transcript) == FALSE

\* if not transcript   (app.py:342)
no_speech(transcript) == transcript = <<>>

\* app.py:341-369, from the formatted transcript on
save_transcript(url, fault, result, transcript) ==
    LET transcribed == <<"scratch-created", "media-acquired", "audio-normalized", "transcribed">>
        formatted == transcribed \o <<"formatted">>
    IN  IF no_speech(transcript)
        THEN [Outcome(transcribed, "formatting", 400, "No speech detected in the video.")
                 EXCEPT !.model = "model", !.result = result]
        ELSE IF fault = "commit"
        THEN [Outcome(formatted, "persistence", 500, "commit failed")
                 EXCEPT !.model = "model", !.result = result]
        ELSE [Outcome(formatted \o <<"persisted">>, "", 200, "")
                 EXCEPT !.model = "model", !.result = result, !.url = url,
                        !.transcript = transcript, !.language = language_of(result),
                        !.line_count = line_count_of(transcript)]

\* app.py:338-369, from the acquired media on
process_media(url, fault, result) ==
    LET acquired == <<"scratch-created", "media-acquired">>
        normalized == acquired \o <<"audio-normalized">>
    IN  IF fault = "extract"
        THEN Outcome(acquired, "normalization", 500, "Failed to extract audio")
        ELSE IF _whisper_model = "None" /\ fault = "load_model"
        THEN Outcome(normalized, "transcription", 500, "model load failed")
        ELSE IF fault = "transcribe"
        THEN [Outcome(normalized, "transcription", 500, "transcription failed")
                 EXCEPT !.model = "model"]
        ELSE CHOOSE o \in {save_transcript(url, fault, result, t) :
                              t \in {format_transcript(result)}} : TRUE

\* app.py:308-369, the body of the inner try
run_pipeline(source, fault, result) ==
    LET created == <<"scratch-created">>
    IN  IF source.kind = "file"
        THEN IF source.name = <<>>
             THEN Outcome(created, "validation", 400, "No file selected")
             ELSE IF allowed_file(source.name)
             THEN IF fault = "save"
                  THEN [Outcome(created, "acquisition", 500, "save failed")
                           EXCEPT !.acquired_by = "file.save"]
                  ELSE [process_media(FilePrefix \o secure_filename(source.name), fault, result)
                           EXCEPT !.acquired_by = "file.save"]
             ELSE Outcome(created, "validation", 400,
                          "Invalid file type. Allowed: mp3, wav, mp4, m4a, mov")
        ELSE IF strip(source.name) = <<>>
             THEN Outcome(created, "validation", 400,
                          "Please provide a Video URL or upload a file")
             ELSE IF fault = "download"
             THEN [Outcome(created, "acquisition", 500, "Download failed")
                      EXCEPT !.acquired_by = "download_video"]
             ELSE [process_media(strip(source.name), fault, result)
                      EXCEPT !.acquired_by = "download_video"]

\* a plausible slip: a validation rejection returned before the try/finally
finally_cleanup_skipped_on_reject(outcome, rmtree_ok) ==
    IF outcome.failed_at = "validation" THEN [ran |-> FALSE, temp_dir |-> "exists"]
    ELSE [ran |-> TRUE, temp_dir |-> IF rmtree_ok THEN "removed" ELSE "exists"]

\* a plausible slip: the cleanup as the last statement of the try body
finally_cleanup_on_success_only(outcome, rmtree_ok) ==
    IF outcome.status = 200
    THEN [ran |-> TRUE, temp_dir |-> IF rmtree_ok THEN "removed" ELSE "exists"]
    ELSE [ran |-> FALSE, temp_dir |-> "exists"]

\* finally: try: shutil.rmtree(temp_dir) except Exception: pass   (app.py:371-375)
finally_cleanup(outcome, rmtree_ok) ==
    [ran |-> TRUE, temp_dir |-> IF rmtree_ok THEN "removed" ELSE "exists"]

\* a plausible slip: the row added as soon as the media is there, whatever follows
row_saved_once_acquired(outcome) == outcome.failed_at \notin {"validation", "acquisition"}

\* db.session.add(transcript_record); db.session.commit()   (app.py:359-360)
row_saved(outcome) == outcome.status = 200

\* a plausible slip: the row attributed to the first user
new_transcript_wrong_owner(user, o, now) ==
    [user_id |-> 1, instagram_url |-> o.url, transcript_text |-> o.transcript,
     language |-> o.language, line_count |-> o.line_count, created_at |-> now,
     sent_email |-> FALSE, sent_sms |-> FALSE, sent_whatsapp |-> FALSE]

\* Transcript(user_id=..., ...) with the column defaults   (app.py:352-358, models.py:42-57)
new_transcript(user, o, now) ==
    [user_id |-> user, instagram_url |-> o.url, transcript_text |-> o.transcript,
     language |-> o.language, line_count |-> o.line_count, created_at |-> now,
     sent_email |-> FALSE, sent_sms |-> FALSE, sent_whatsapp |-> FALSE]

\* datetime.utcnow, the default of Transcript.created_at (models.py:52), read
\* when the row is added: the time of the latest row, or tick later (the
\* clock is taken not to run backwards)
utcnow(tick) ==
    (IF transcripts = <<>> THEN 0 ELSE transcripts[Len(transcripts)].created_at) + tick

transcribe(c, source, fault, result, rmtree_ok, tick) ==
    LET u == current_user[c]
    IN  /\ u # NoUser
        /\ UNCHANGED <<users, current_user, fmt, sms, threads>>
        /\ IF fault = "makedirs"
           THEN /\ response' = [Reply("transcribe", u, 500, "makedirs failed")
                                   EXCEPT !.failed_at = "scratch"]
                /\ UNCHANGED <<transcripts, _whisper_model>>
           ELSE \E o \in {run_pipeline(source, fault, result)} :
                \E fin \in {finally_cleanup(o, rmtree_ok)} :
                    /\ o.status = 200 => Len(transcripts) < MaxTranscripts
                    /\ transcripts' = IF row_saved(o)
                                      THEN Append(transcripts, new_transcript(u, o, utcnow(tick)))
                                      ELSE transcripts
                    /\ _whisper_model' = o.model
                    /\ response' =
                         [Reply("transcribe", u, o.status, o.error) EXCEPT
                            !.tid = IF o.status = 200 THEN Len(transcripts) + 1 ELSE 0,
                            !.body = IF o.status = 200
                                     THEN [id |-> Len(transcripts) + 1, url |-> o.url,
                                           text |-> o.transcript, language |-> o.language,
                                           line_count |-> o.line_count]
                                     ELSE NoBody,
                            !.result = o.result,
                            !.failed_at = o.failed_at,
                            !.stages = o.stages \o (IF fin.ran THEN <<"scratch-cleaned">>
                                                    ELSE <<>>),
                            !.rmtree_ok = rmtree_ok,
                            !.temp_dir = fin.temp_dir,
                            !.source = source,
                            !.acquired_by = o.acquired_by]

(***************************************************************************)
(* The whole application from its start: accounts and the pipeline.        *)
(***************************************************************************)
SpecEmails == {<<"a">>, <<" ", "B", " ">>}

SpecPassword == <<"s", "e", "c", "r", "e", "t">>

Sources ==
    [kind : {"file"}, name : {<<>>, <<"a", ".", "M", "P", "3">>, <<"m", "p", "3">>,
                             <<".", "m", "p", "3", ".", "e">>}] \cup
    [kind : {"url"}, name : {<<" ">>, <<" ", "u">>}]

Results ==
    {[segments |-> << <<" ", "a">>, <<" ">>, <<"b", ".", " ">> >>, text |-> <<"a", " ", "b", ".">>, language |-> "en"],
     [segments |-> <<>>, text |-> <<>>, language |-> "en"],
     [segments |-> << <<" ">>, <<>> >>, text |-> <<" ", "\n">>, language |-> "en"]}

Init ==
    /\ InitApp
    /\ fmt = IdleFmt
    /\ sms = IdleSms

\* Inputs that differ only in a value the request never reads lead to the same
\* step and are drawn once: a fault is drawn among the calls the request makes,
\* a result only when the speech model is run.
IsAcquired(source) ==
    IF source.kind = "file" THEN source.name # <<>> /\ allowed_file(source.name)
    ELSE strip(source.name) # <<>>

FaultsFor(source) ==
    IF ~IsAcquired(source) THEN {"none", "makedirs"}
    ELSE Faults \ {IF source.kind = "file" THEN "download" ELSE "save"}

ResultsUnder(source, fault) ==
    IF IsAcquired(source) /\ fault \in {"none", "commit"} THEN Results ELSE {NoResult}

PipelineInputs ==
    UNION {UNION {[source : {s}, fault : {f}, result : ResultsUnder(s, f), rmtree_ok : BOOLEAN] :
                     f \in FaultsFor(s)} : s \in Sources}

Next ==
    \/ \E c \in Clients, e \in SpecEmails : register(c, e, SpecPassword)
    \/ \E c \in Clients, i \in PipelineInputs :
          transcribe(c, i.source, i.fault, i.result, i.rmtree_ok, 1)

Spec == Init /\ [][Next]_vars

(***************************************************************************)
(* Accounts alone, with emails that differ in case and blanks, and short   *)
(* and wrong passwords.                                                    *)
(***************************************************************************)
AuthEmails == {<<>>, <<" ">>, <<"a">>, <<"A">>, <<" ", "a", " ">>, <<"b">>, <<"B", " ">>, <<"x">>}

AuthPasswords == {<<>>, <<"1", "2", "3", "4", "5">>, <<"s", "e", "c", "r", "e", "t">>, <<"h", "u", "n", "t", "e", "r", "2">>}

NextAuth ==
    \/ \E c \in Clients, e \in AuthEmails, p \in AuthPasswords : register(c, e, p)
    \/ \E c \in Clients, e \in AuthEmails, p \in AuthPasswords : login(c, e, p)
    \/ \E c \in Clients : logout(c)

SpecAuth == Init /\ [][NextAuth]_vars

(***************************************************************************)
(* notifications.py: the channel drivers.  smtp is what the SMTP side does *)
(* with a message: "ok", or credentials missing ("unconfigured"), or the   *)
(* login refused ("auth"), or any other failure ("error").  A driver       *)
(* returns [raised, to, sent]: the NotificationError raised ("" for none), *)
(* the address given to the transport, and whether the message went out.   *)
(***************************************************************************)
\* config.SMS_GATEWAYS   (config.py:43-52)
SMS_GATEWAYS ==
    (<<"a", "i", "r", "t", "e", "l">> :> <<"@", "a", "i", "r", "t", "e", "l", "m", "a", "i", "l", ".", "c", "o", "m">>) @@
    (<<"j", "i", "o">> :> <<"@", "j", "i", "o", ".", "c", "o", "m">>) @@
    (<<"v", "i">> :> <<"@", "v", "i", "m", "a", "i", "l", ".", "c", "o", "m">>) @@
    (<<"b", "s", "n", "l">> :> <<"@", "b", "s", "n", "l", ".", "i", "n">>) @@
    (<<"a", "t", "t">> :> <<"@", "t", "x", "t", ".", "a", "t", "t", ".", "n", "e", "t">>) @@
    (<<"t", "m", "o", "b", "i", "l", "e">> :> <<"@", "t", "m", "o", "m", "a", "i", "l", ".", "n", "e", "t">>) @@
    (<<"v", "e", "r", "i", "z", "o", "n">> :> <<"@", "v", "t", "e", "x", "t", ".", "c", "o", "m">>)

SmtpOutcomes == {"ok", "unconfigured", "auth", "error"}

\* send_email   (notifications.py:17-61)
send_email(to_email, smtp) ==
    [raised |-> CASE smtp = "ok" -> ""
                  [] smtp = "unconfigured" -> "Email not configured"
                  [] smtp = "auth" -> "Gmail authentication failed"
                  [] OTHER -> "Failed to send email",
     to |-> to_email,
     sent |-> (smtp = "ok")]

\* the number of digits send_sms keeps   (notifications.py:87-88)
SmsDigits == 10

\* a plausible slip: phone[:10], the first ten digits
send_sms_first_digits(phone_number, carrier, smtp) ==
    IF carrier \notin DOMAIN SMS_GATEWAYS
    THEN [raised |-> "Unsupported carrier", to |-> <<>>, sent |-> FALSE]
    ELSE LET digits == digits_of(phone_number)
             phone == IF Len(digits) > SmsDigits THEN SubSeq(digits, 1, SmsDigits) ELSE digits
         IN  send_email(phone \o SMS_GATEWAYS[carrier], smtp)

\* send_sms   (notifications.py:64-102)
send_sms(phone_number, carrier, smtp) ==
    IF carrier \notin DOMAIN SMS_GATEWAYS
    THEN [raised |-> "Unsupported carrier", to |-> <<>>, sent |-> FALSE]
    ELSE LET digits == digits_of(phone_number)
             phone == IF Len(digits) > SmsDigits
                      THEN SubSeq(digits, Len(digits) - SmsDigits + 1, Len(digits))
                      ELSE digits
             gateway_email == phone \o SMS_GATEWAYS[carrier]
         IN  send_email(gateway_email, smtp)

\* "no_sid": messages.create returns a message without a sid, and send_whatsapp
\* returns False without raising   (notifications.py:140)
TwilioOutcomes == {"ok", "no_sid", "unconfigured", "not_joined", "error"}

\* send_whatsapp   (notifications.py:105-153)
send_whatsapp(to_number, twilio) ==
    [raised |-> CASE twilio \in {"ok", "no_sid"} -> ""
                  [] twilio = "unconfigured" -> "WhatsApp not configured"
                  [] twilio = "not_joined" -> "This number hasn't joined the Twilio WhatsApp Sandbox"
                  [] OTHER -> "Failed to send WhatsApp",
     to |-> to_number,
     sent |-> (twilio = "ok")]

(***************************************************************************)
(* Retrieval and delivery: /transcript/<id>, /send/<id>, /send-direct      *)
(* (app.py:381-545).  transport is what the mail or messaging side does    *)
(* with the message.  The message text is not modelled: no handler's       *)
(* decision reads it.                                                      *)
(***************************************************************************)
\* a plausible slip: the lookup by id alone
find_transcript_any_owner(transcript_id, user) ==
    IF transcript_id \in 1..Len(transcripts) THEN transcript_id ELSE 0

\* Transcript.query.filter_by(id=transcript_id, user_id=current_user.id).first()
find_transcript(transcript_id, user) ==
    IF transcript_id \in 1..Len(transcripts) /\ transcripts[transcript_id].user_id = user
    THEN transcript_id
    ELSE 0

\* a plausible slip: the WhatsApp branch pasted from the SMS one, flag included
mark_sent_pasted(row, channel) ==
    CASE channel = "email" -> [row EXCEPT !.sent_email = TRUE]
      [] channel = "sms" -> [row EXCEPT !.sent_sms = TRUE]
      [] channel = "whatsapp" -> [row EXCEPT !.sent_sms = TRUE]

\* transcript.sent_<channel> = True   (app.py:427, 441, 462, 511, 534)
mark_sent(row, channel) ==
    CASE channel = "email" -> [row EXCEPT !.sent_email = TRUE]
      [] channel = "sms" -> [row EXCEPT !.sent_sms = TRUE]
      [] channel = "whatsapp" -> [row EXCEPT !.sent_whatsapp = TRUE]

get_transcript(c, transcript_id) ==
    LET u == current_user[c]
        t == find_transcript(transcript_id, u)
    IN  /\ u # NoUser
        /\ response' =
             IF t = 0
             THEN [Reply("get_transcript", u, 404, "Transcript not found")
                      EXCEPT !.tid = transcript_id]
             ELSE [Reply("get_transcript", u, 200, "") EXCEPT
                      !.tid = transcript_id,
                      !.body = [id |-> t, url |-> transcripts[t].instagram_url,
                                text |-> transcripts[t].transcript_text,
                                language |-> transcripts[t].language,
                                line_count |-> transcripts[t].line_count]]
        /\ UNCHANGED <<users, transcripts, current_user, _whisper_model, fmt, sms, threads>>

\* a plausible slip: the flag set before the driver is called
deliver_flag_first(route, u, t, method, recipient_in, channel, r) ==
    /\ transcripts' = [transcripts EXCEPT ![t] = mark_sent(@, channel)]
    /\ response' = [Reply(route, u, IF r.raised # "" THEN 500 ELSE 200, r.raised) EXCEPT
                       !.tid = t, !.method = method, !.recipient = recipient_in,
                       !.sent = IF r.sent THEN [channel |-> channel, to |-> r.to] ELSE NoSend]

\* the tail of a delivery branch: the driver raised (500), or the flag is set
\* and committed (200)
deliver(route, u, t, method, recipient_in, channel, r) ==
    LET answer(status, error) ==
            [Reply(route, u, status, error) EXCEPT
                !.tid = t, !.method = method, !.recipient = recipient_in,
                !.sent = IF r.sent THEN [channel |-> channel, to |-> r.to] ELSE NoSend]
    IN  IF r.raised # ""
        THEN /\ response' = answer(500, r.raised)
             /\ UNCHANGED transcripts
        ELSE /\ transcripts' = [transcripts EXCEPT ![t] = mark_sent(@, channel)]
             /\ response' = answer(200, "")

refuse(route, u, transcript_id, method, recipient_in, status, error) ==
    /\ response' = [Reply(route, u, status, error) EXCEPT
                       !.tid = transcript_id, !.method = method, !.recipient = recipient_in]
    /\ UNCHANGED transcripts

send_transcript(c, transcript_id, method, transport) ==
    LET u == current_user[c]
        t == find_transcript(transcript_id, u)
    IN  /\ u # NoUser
        /\ UNCHANGED <<users, current_user, _whisper_model, fmt, sms, threads>>
        /\ IF t = 0
           THEN refuse("send", u, transcript_id, "", <<>>, 404, "Transcript not found")
           ELSE CASE method = "email" ->
                       IF users[u].email = <<>>
                       THEN refuse("send", u, t, method, <<>>, 400, "No email address on file")
                       ELSE deliver("send", u, t, method, <<>>, "email",
                                    send_email(users[u].email, transport))
                  [] method = "sms" ->
                       IF users[u].phone = <<>> \/ users[u].phone_carrier = <<>>
                       THEN refuse("send", u, t, method, <<>>, 400,
                                   "Please set your phone number and carrier in your profile")
                       ELSE deliver("send", u, t, method, <<>>, "sms",
                                    send_sms(users[u].phone, users[u].phone_carrier, transport))
                  [] method = "whatsapp" ->
                       IF users[u].whatsapp = <<>>
                       THEN refuse("send", u, t, method, <<>>, 400,
                                   "Please set your WhatsApp number in your profile")
                       ELSE deliver("send", u, t, method, <<>>, "whatsapp",
                                    send_whatsapp(users[u].whatsapp, transport))
                  [] OTHER ->
                       refuse("send", u, t, method, <<>>, 400, "Invalid delivery method")

\* if not phone or len(phone) < 10   (app.py:519)
MinWhatsappDigits == 10

\* transcript_id 0 stands for a body without 'transcript_id' (None)
send_direct(c, method, recipient_in, transcript_id, transport) ==
    LET u == current_user[c]
        recipient == strip(recipient_in)
        t == find_transcript(transcript_id, u)
        phone == digits_of(recipient)
        no(status, error) ==
            refuse("send_direct", u, transcript_id, method, recipient_in, status, error)
    IN  /\ u # NoUser
        /\ UNCHANGED <<users, current_user, _whisper_model, fmt, sms, threads>>
        /\ IF recipient = <<>>
           THEN no(400, "Please provide a recipient")
           ELSE IF transcript_id = 0
           THEN no(400, "No transcript selected")
           ELSE IF t = 0
           THEN no(404, "Transcript not found")
           ELSE CASE method = "email" ->
                       IF ~Contains(recipient, "@") \/ ~Contains(recipient, ".")
                       THEN no(400, "Please enter a valid email address")
                       ELSE deliver("send_direct", u, t, method, recipient_in, "email",
                                    send_email(recipient, transport))
                  [] method = "whatsapp" ->
                       IF phone = <<>> \/ Len(phone) < MinWhatsappDigits
                       THEN no(400, "Please enter a valid phone number with country code")
                       ELSE deliver("send_direct", u, t, method, recipient_in, "whatsapp",
                                    send_whatsapp(IF Head(recipient) = "+" THEN recipient
                                                  ELSE <<"+">> \o phone, transport))
                  [] OTHER -> no(400, "Invalid delivery method")

(***************************************************************************)
(* Delivery, from a state the application reaches under Spec: two users,   *)
(* each logged in on one client and owning one transcript, the second with *)
(* a profile set.                                                          *)
(***************************************************************************)
Phone == <<"+", "9", "1", " ", "9", "8", "7", "6", "5", " ", "4", "3", "2", "1", "0">>

Whatsapp == <<"+", "9", "1", "9", "8", "7", "6", "5", "4", "3", "2", "1", "0">>

StartUsers ==
    << [email |-> <<"a">>, password_hash |-> generate_password_hash(SpecPassword),
        phone |-> <<>>, phone_carrier |-> <<>>, whatsapp |-> <<>>],
       [email |-> <<"b">>, password_hash |-> generate_password_hash(SpecPassword),
        phone |-> <<>>, phone_carrier |-> <<>>, whatsapp |-> <<>>] >>

StartRow(user, url, at) ==
    [user_id |-> user, instagram_url |-> url, transcript_text |-> <<"a", "\n", "b", ".">>,
     language |-> "en", line_count |-> 2, created_at |-> at,
     sent_email |-> FALSE, sent_sms |-> FALSE, sent_whatsapp |-> FALSE]

StartTranscripts ==
    << StartRow(1, <<"u">>, 1), StartRow(2, FilePrefix \o <<"a", ".", "M", "P", "3">>, 2) >>

\* the state after register, register, transcribe, transcribe
SendStart ==
    /\ users = StartUsers
    /\ transcripts = StartTranscripts
    /\ current_user = [c \in Clients |-> c]
    /\ _whisper_model = "model"
    /\ response.route = "transcribe" /\ response.success /\ response.user = 2
    /\ response.tid = 2 /\ response.rmtree_ok

InitSend ==
    /\ users = StartUsers
    /\ transcripts = StartTranscripts
    /\ current_user = [c \in Clients |-> c]
    /\ _whisper_model = "model"
    /\ response = Reply("none", NoUser, 0, "")
    /\ threads = IdleThreads
    /\ fmt = IdleFmt
    /\ sms = IdleSms

\* the profile the second user saves; the first user keeps a blank profile, so
\* that both the refusals for a missing field and the deliveries are taken
ProfilePayloads ==
    {[phone |-> <<" ">> \o Phone, phone_carrier |-> <<"j", "i", "o", " ">>,
      whatsapp |-> Whatsapp]}

SendMethods == {"email", "sms", "whatsapp", "fax"}

Recipients == {<<" ">>, <<"a", "@", "b", ".", "c">>, Whatsapp}

Transports(method) ==
    CASE method \in {"email", "sms"} -> SmtpOutcomes
      [] method = "whatsapp" -> TwilioOutcomes
      [] OTHER -> {"ok"}

NextSend ==
    \/ \E d \in ProfilePayloads : update_profile(2, d)
    \/ \E c \in Clients, t \in 1..3 : get_transcript(c, t)
    \/ \E c \in Clients, t \in 1..3, m \in SendMethods :
          \E tr \in Transports(m) : send_transcript(c, t, m, tr)
    \/ \E c \in Clients, t \in 0..2, m \in SendMethods \ {"fax"}, r \in Recipients :
          \E tr \in Transports(m) : send_direct(c, m, r, t, tr)

SpecSend == InitSend /\ [][NextSend]_vars

(***************************************************************************)
(* send_sms as a pure function: the inputs.                                *)
(***************************************************************************)
PhoneChars == {"+", "9", "1", " ", "-"}

PhoneTails == {<<>>, <<"9", "8", "7", "6", "5", " ", "4", "3", "2", "1", "0">>, <<"9", "8", "7", "6", "5", "4", "3", "2", "1", "0">>, <<"4", "3", "2", "1", "0">>}

ExamplePhone == <<"+", "9", "1", " ", "9", "8", "7", "6", "5", " ", "4", "3", "2", "1", "0">>

ExampleGateway == <<"9", "8", "7", "6", "5", "4", "3", "2", "1", "0", "@", "j", "i", "o", ".", "c", "o", "m">>

Jio == <<"j", "i", "o">>

SmsPhones ==
    {p \o t : p \in SeqsUpTo(PhoneChars, MaxPrefixLen), t \in PhoneTails} \cup {ExamplePhone}

SmsCarriers == DOMAIN SMS_GATEWAYS \cup {<<>>, <<"J", "I", "O">>, <<"i", "d", "e", "a">>}

InitSms ==
    /\ InitApp
    /\ fmt = IdleFmt
    /\ sms \in [pc : {"input"}, phone : SmsPhones, carrier : SmsCarriers, smtp : SmtpOutcomes,
                raised : {""}, to : {<<>>}, sent : {FALSE}]

\* notifications.send_sms(phone, carrier, message)   (app.py:440)
SendSmsStep ==
    /\ sms.pc = "input"
    /\ LET r == send_sms(sms.phone, sms.carrier, sms.smtp)
       IN  sms' = [sms EXCEPT !.pc = "done", !.raised = r.raised, !.to = r.to, !.sent = r.sent]
    /\ UNCHANGED <<users, transcripts, current_user, _whisper_model, response, fmt, threads>>

NextSms == SendSmsStep

SpecSms == InitSms /\ [][NextSms]_vars

DigitsOnly(s) == SelectSeq(s, IsDigit)

\* the last n elements of s, all of s when it has fewer
LastOf(s, n) == [i \in 1..(IF Len(s) < n THEN Len(s) ELSE n) |->
                    s[Len(s) - (IF Len(s) < n THEN Len(s) ELSE n) + i]]

\* C10: for a carrier of the table send_sms addresses the message to the last
\* 10 digits of the phone string followed by the carrier's suffix (the example
\* phone with "jio" gives 9876543210@jio.com), and the message goes out exactly
\* when the mail transport accepts it; for a carrier not in the table it raises
\* a notification error and sends nothing.
C10_SmsAddress ==
    sms.pc = "done" =>
        /\ sms.carrier \in DOMAIN SMS_GATEWAYS =>
              /\ sms.to = LastOf(DigitsOnly(sms.phone), 10) \o SMS_GATEWAYS[sms.carrier]
              /\ sms.sent <=> sms.smtp = "ok"
        /\ (sms.carrier = Jio /\ sms.phone = ExamplePhone) => sms.to = ExampleGateway
        /\ sms.carrier \notin DOMAIN SMS_GATEWAYS =>
              sms.raised = "Unsupported carrier" /\ ~sms.sent /\ sms.to = <<>>

\* the example phone, with its country code cut off, sent through jio
C10_Witness ==
    /\ sms.pc = "done"
    /\ sms.phone = ExamplePhone
    /\ sms.carrier = Jio
    /\ sms.sent
    /\ sms.to = ExampleGateway

\* an unsupported carrier refused
C10_WitnessUnsupported == sms.pc = "done" /\ sms.raised = "Unsupported carrier"

(***************************************************************************)
(* format_transcript as a pure function: the inputs.                       *)
(***************************************************************************)
SegAlphabet == {"a", " ", "\n"}

TextAlphabet == {"a", ".", "?", "!", " ", "\n"}

ShortSegments == {<<>>, <<" ">>, <<"a">>, <<"a", " ">>, <<"\n", "a">>}

\* up to MaxSegments segments: one of them any text up to MaxSegmentLen characters,
\* the others short
SegmentLists ==
    {<<>>} \cup
    UNION {{[i \in 1..k |-> IF i = p THEN l ELSE s[i]] :
               p \in 1..k, l \in SeqsUpTo(SegAlphabet, MaxSegmentLen),
               s \in [1..k -> ShortSegments]} : k \in 1..MaxSegments}

HelloText ==
    <<"H", "e", "l", "l", "o", ".", " ", "H", "o", "w", " ", "a", "r", "e", " ",
      "y", "o", "u", "?", " ", "G", "r", "e", "a", "t", "!">>

HelloScript ==
    <<"H", "e", "l", "l", "o", ".", "\n", "H", "o", "w", " ", "a", "r", "e", " ",
      "y", "o", "u", "?", "\n", "G", "r", "e", "a", "t", "!">>

FormatInputs ==
    [segments : SegmentLists, text : {<<>>, <<"a", ".", " ", "a">>}, language : {"en"}]
    \cup
    [segments : {<<>>, << <<" ">> >>},
     text : SeqsUpTo(TextAlphabet, MaxTextLen) \cup {HelloText}, language : {"en"}]

InitFormat ==
    /\ InitApp
    /\ fmt \in [pc : {"input"}, result : FormatInputs, out : {<<>>}]
    /\ sms = IdleSms

\* transcript = format_transcript(result)   (app.py:340)
FormatStep ==
    /\ fmt.pc = "input"
    /\ fmt' = [fmt EXCEPT !.pc = "done", !.out = format_transcript(fmt.result)]
    /\ UNCHANGED <<users, transcripts, current_user, _whisper_model, response, sms, threads>>

NextFormat == FormatStep

SpecFormat == InitFormat /\ [][NextFormat]_vars

(***************************************************************************)
(* What the specification says of format_transcript, stated without the    *)
(* code's helpers.                                                         *)
(***************************************************************************)
TrimmedText(s) ==
    LET keep == {i \in 1..Len(s) : ~IsSpace(s[i])}
    IN  IF keep = {} THEN <<>> ELSE SubSeq(s, MinOf(keep), MaxOf(keep))

NonEmptyText(t) == t # <<>>

NonEmptyTrimmed(texts) ==
    SelectSeq([i \in 1..Len(texts) |-> TrimmedText(texts[i])], NonEmptyText)

RECURSIVE NewlineJoined(_)
NewlineJoined(lines) ==
    IF Len(lines) = 0 THEN <<>>
    ELSE IF Len(lines) = 1 THEN lines[1]
    ELSE NewlineJoined(SubSeq(lines, 1, Len(lines) - 1)) \o <<"\n">> \o lines[Len(lines)]

NewlinesIn(t) == Cardinality({i \in 1..Len(t) : t[i] = "\n"})

\* the lines of a text, as its newline-separated pieces
LinesOf(t) == NewlinesIn(t) + 1

RECURSIVE SumNewlines(_)
SumNewlines(lines) ==
    IF lines = <<>> THEN 0 ELSE NewlinesIn(Head(lines)) + SumNewlines(Tail(lines))

Terminators == {".", "?", "!"}

\* the pieces of text cut after every terminator that a space follows (the
\* terminator kept, the space dropped) and, when atNewlines, at every newline
RECURSIVE SentencePieces(_, _, _, _)
SentencePieces(text, i, piece, atNewlines) ==
    IF i > Len(text) THEN <<piece>>
    ELSE IF text[i] \in Terminators /\ i < Len(text) /\ text[i + 1] = " "
         THEN <<piece \o <<text[i]>> >> \o SentencePieces(text, i + 2, <<>>, atNewlines)
         ELSE IF atNewlines /\ text[i] = "\n"
              THEN <<piece>> \o SentencePieces(text, i + 1, <<>>, atNewlines)
              ELSE SentencePieces(text, i + 1, piece \o <<text[i]>>, atNewlines)

SentenceLines(text, atNewlines) == NonEmptyTrimmed(SentencePieces(text, 1, <<>>, atNewlines))

PrimaryPath == fmt.pc = "done" /\ NonEmptyTrimmed(fmt.result.segments) # <<>>

FallbackPath ==
    fmt.pc = "done" /\ NonEmptyTrimmed(fmt.result.segments) = <<>> /\ fmt.result.text # <<>>

C9_SplitsAtTerminatorsOnly ==
    (fmt.pc = "done" /\ fmt.result.segments = <<>> /\ fmt.result.text # <<>>) =>
        fmt.out = NewlineJoined(SentenceLines(fmt.result.text, FALSE))

\* C9, amended: the text is cut after each ". ", "? ", "! " and also at every
\* newline already in it (the newline dropped); the pieces are trimmed, the
\* empty ones dropped, the rest joined by newlines; the example text yields
\* exactly "Hello.", "How are you?", "Great!".
C9_SentenceFallback ==
    (fmt.pc = "done" /\ fmt.result.segments = <<>> /\ fmt.result.text # <<>>) =>
        /\ fmt.out = NewlineJoined(SentenceLines(fmt.result.text, TRUE))
        /\ fmt.result.text = HelloText => fmt.out = HelloScript

C9_Witness ==
    /\ fmt.pc = "done"
    /\ fmt.result.segments = <<>>
    /\ fmt.result.text = HelloText
    /\ fmt.out = HelloScript

(***************************************************************************)
(* The request pipeline: what the specification says of /transcribe.       *)
(***************************************************************************)
Transcribed == response.route = "transcribe"

StageSet(r) == {r.stages[i] : i \in 1..Len(r.stages)}

\* the script the specification expects for a transcription result
ExpectedScript(result) ==
    IF NonEmptyTrimmed(result.segments) # <<>>
    THEN NewlineJoined(NonEmptyTrimmed(result.segments))
    ELSE NewlineJoined(SentenceLines(result.text, TRUE))

\* C1, as stated: whichever way a /transcribe request that created its scratch
\* directory ends, the directory no longer exists when the request returns.
C1_ScratchAlwaysGone ==
    (Transcribed /\ "scratch-created" \in StageSet(response)) => response.temp_dir = "removed"

\* C1, amended: on every exit path of a /transcribe request that created its
\* scratch directory the removal is attempted, and the directory no longer
\* exists when the request returns unless the removal itself failed (the
\* failure is swallowed); a request that could not create it leaves none.
C1_ScratchRemovedUnlessRmtreeFails ==
    Transcribed =>
        /\ "scratch-created" \in StageSet(response) =>
              /\ response.stages[Len(response.stages)] = "scratch-cleaned"
              /\ response.rmtree_ok => response.temp_dir = "removed"
              /\ response.temp_dir \in {"removed", "exists"}
        /\ "scratch-created" \notin StageSet(response) => response.temp_dir = "none"

\* a rejected upload, and a request failing while transcribing, both cleaned up
C1_Witness ==
    /\ Transcribed
    /\ response.failed_at = "transcription"
    /\ response.temp_dir = "removed"

FailedEarly ==
    {"acquisition", "normalization", "transcription", "formatting"}

StagesUpTo(failed_at) ==
    CASE failed_at = "acquisition" -> <<"scratch-created">>
      [] failed_at = "normalization" -> <<"scratch-created", "media-acquired">>
      [] failed_at = "transcription" ->
            <<"scratch-created", "media-acquired", "audio-normalized">>
      [] failed_at = "formatting" ->
            <<"scratch-created", "media-acquired", "audio-normalized", "transcribed">>

\* C2: a /transcribe request failing at acquisition, normalization or
\* transcription, or on an empty transcript, runs none of the later stages,
\* answers a failure envelope, and leaves the transcripts table as it was.
C2_FailureShortCircuits ==
    /\ [](  (Transcribed /\ response.failed_at \in FailedEarly) =>
              /\ response.stages = StagesUpTo(response.failed_at) \o <<"scratch-cleaned">>
              /\ ~response.success
              /\ response.error # ""
              /\ response.status \in {400, 500}
              /\ response.body = NoBody)
    /\ [][ (response'.route = "transcribe" /\ response'.failed_at \in FailedEarly) =>
              transcripts' = transcripts ]_vars

\* a request failed while normalizing, with a transcript already in the table
C2_Witness ==
    /\ Transcribed
    /\ response.failed_at = "normalization"
    /\ Len(transcripts) > 0

\* C3: a /transcribe request in which every stage succeeds appends exactly one
\* row: owned by the requester, holding the formatted text and the detected
\* language, line_count the number of newline-separated lines of the text, the
\* three delivery flags false; every other row is left as it was.
C3_OneRowPerSuccess ==
    [][ (response'.route = "transcribe" /\ response'.success) =>
          /\ Len(transcripts') = Len(transcripts) + 1
          /\ \A i \in 1..Len(transcripts) : transcripts'[i] = transcripts[i]
          /\ LET row == transcripts'[Len(transcripts')]
             IN  /\ \E c \in Clients : current_user[c] = row.user_id
                 /\ row.user_id = response'.user
                 /\ row.transcript_text = ExpectedScript(response'.result)
                 /\ row.transcript_text # <<>>
                 /\ row.language = response'.result.language
                 /\ row.line_count = LinesOf(row.transcript_text)
                 /\ ~row.sent_email /\ ~row.sent_sms /\ ~row.sent_whatsapp
                 /\ response'.tid = Len(transcripts')
                 /\ response'.body.text = row.transcript_text ]_vars

\* the second user's request succeeded and added the second row
C3_Witness ==
    /\ Transcribed
    /\ response.success
    /\ response.user = 2
    /\ Len(transcripts) = 2
    /\ transcripts[2].user_id = 2
    /\ transcripts[1].user_id = 1

NoSpeechIn(result) ==
    NonEmptyTrimmed(result.segments) = <<>> /\ TrimmedText(result.text) = <<>>

\* C8: when the speech model returns no segment with non-blank text and an
\* empty or blank aggregate text, /transcribe answers the failure "No speech
\* detected", never a success with an empty transcript, and adds no row.
C8_EmptySpeechRejected ==
    /\ [](  /\ (Transcribed /\ "transcribed" \in StageSet(response)
                  /\ NoSpeechIn(response.result)) =>
                  /\ ~response.success
                  /\ response.status = 400
                  /\ response.error = "No speech detected in the video."
                  /\ "persisted" \notin StageSet(response)
            /\ (Transcribed /\ response.success) => response.body.text # <<>>)
    /\ [][ (response'.route = "transcribe" /\ "transcribed" \in StageSet(response')
              /\ NoSpeechIn(response'.result)) => transcripts' = transcripts ]_vars

\* blank-only segments and a blank text rejected
C8_Witness ==
    /\ Transcribed
    /\ response.result.segments = << <<" ">>, <<>> >>
    /\ response.result.text = <<" ", "\n">>
    /\ response.error = "No speech detected in the video."

(***************************************************************************)
(* Accounts: what the specification says of /register.                     *)
(***************************************************************************)
FoldCase(ch) == LowerChar(ch)

EqualIgnoringCase(x, y) ==
    Len(x) = Len(y) /\ \A k \in 1..Len(x) : FoldCase(x[k]) = FoldCase(y[k])

IsLowerCase(x) == \A k \in 1..Len(x) : \A i \in 1..Len(UpperLetters) : x[k] # UpperLetters[i]

\* the request must be rejected: the password is too short, or the trimmed
\* email equals a stored one ignoring case
MustReject(r, table) ==
    \/ Len(r.password) < 6
    \/ \E i \in 1..Len(table) : EqualIgnoringCase(table[i].email, TrimmedText(r.email))

\* C6: /register answers 400 and creates neither a user nor a session when the
\* password has fewer than 6 characters or the trimmed email equals, ignoring
\* case, the email of an existing user; so no two users have emails equal
\* ignoring case, and every stored email is lower-case.
C6_RegisterRejects ==
    /\ [](  /\ \A i, j \in 1..Len(users) :
                  i # j => ~EqualIgnoringCase(users[i].email, users[j].email)
            /\ \A i \in 1..Len(users) : IsLowerCase(users[i].email) /\ users[i].email # <<>>)
    /\ [][ (response'.route = "register" /\ MustReject(response', users)) =>
              /\ response'.status = 400
              /\ ~response'.success
              /\ users' = users
              /\ current_user' = current_user ]_vars

\* "A" refused because "a" is registered
C6_Witness ==
    /\ response.route = "register"
    /\ response.email = <<"A">>
    /\ Len(response.password) >= 6
    /\ response.error = "Email already registered"
    /\ Len(users) = 2

(***************************************************************************)
(* Claims about retrieval and delivery, checked under SpecSend.            *)
(***************************************************************************)
DeliveryRoutes == {"send", "send_direct"}

\* r answers a request that names a transcript row of another user
NamesForeignRow(r) ==
    /\ r.route \in DeliveryRoutes \cup {"get_transcript"}
    /\ r.tid \in 1..Len(transcripts)
    /\ transcripts[r.tid].user_id # r.user

Leaks(r) == r.success \/ r.body # NoBody \/ r.sent # NoSend

BlankRecipient(r) == r.route = "send_direct" /\ TrimmedText(r.recipient) = <<>>

\* C4 as stated: a request naming another user's transcript always answers
\* 404 'Transcript not found', returns no content, sends nothing and leaves
\* the transcripts unchanged.
C4_ForeignAlways404 ==
    [][ NamesForeignRow(response') =>
          /\ response'.status = 404
          /\ response'.error = "Transcript not found"
          /\ ~Leaks(response')
          /\ transcripts' = transcripts ]_vars

\* C4, amended: a request naming another user's transcript never succeeds,
\* returns no content, sends nothing and leaves the transcripts unchanged; it
\* answers 404 'Transcript not found', except that /send-direct with a blank
\* recipient answers 400 'Please provide a recipient' before it looks the
\* transcript up.
C4_OwnershipIsolation ==
    [][ NamesForeignRow(response') =>
          /\ ~Leaks(response')
          /\ transcripts' = transcripts
          /\ IF BlankRecipient(response')
             THEN response'.status = 400 /\ response'.error = "Please provide a recipient"
             ELSE response'.status = 404 /\ response'.error = "Transcript not found" ]_vars

\* the first user asked /send for the second user's transcript, which the
\* second user had already delivered by email
C4_Witness ==
    /\ response.route = "send" /\ response.user = 1 /\ response.tid = 2
    /\ response.status = 404
    /\ transcripts[2].user_id = 2 /\ transcripts[2].sent_email

Flags(row) == <<row.sent_email, row.sent_sms, row.sent_whatsapp>>

ChannelIndex(channel) ==
    CASE channel = "email" -> 1 [] channel = "sms" -> 2 [] channel = "whatsapp" -> 3

\* C5: a successful delivery over one channel sets that channel's flag on the
\* transcript and leaves its other two flags, its other fields and every other
\* transcript unchanged; a flag already true stays true; email then WhatsApp
\* on a fresh transcript ends with email and WhatsApp set and SMS clear.
C5_OneFlagPerDelivery ==
    [][ (response'.route \in DeliveryRoutes /\ response'.success) =>
          LET t == response'.tid
              i == ChannelIndex(response'.method)
          IN  /\ Len(transcripts') = Len(transcripts)
              /\ \A k \in 1..Len(transcripts) :
                    k # t => transcripts'[k] = transcripts[k]
              /\ Flags(transcripts'[t]) = [Flags(transcripts[t]) EXCEPT ![i] = TRUE]
              /\ \A f \in DOMAIN transcripts[t] :
                    f \notin {"sent_email", "sent_sms", "sent_whatsapp"} =>
                        transcripts'[t][f] = transcripts[t][f]
              /\ (Flags(transcripts[t]) = <<TRUE, FALSE, FALSE>> /\ i = 3) =>
                    Flags(transcripts'[t]) = <<TRUE, FALSE, TRUE>> ]_vars

\* email, then WhatsApp, on the first user's transcript
C5_Witness ==
    /\ response.route \in DeliveryRoutes /\ response.success
    /\ response.method = "whatsapp" /\ response.tid = 1
    /\ Flags(transcripts[1]) = <<TRUE, FALSE, TRUE>>
    /\ Flags(transcripts[2]) = <<FALSE, FALSE, FALSE>>

(***************************************************************************)
(* /history (app.py:548-569).  Rows with equal created_at come back in an  *)
(* order the database chooses; tie is that choice, by id upwards or        *)
(* downwards.  The answer is modelled by the ids of the rows it lists.     *)
(***************************************************************************)
\* a plausible slip: the query without its filter
filter_by_nothing(user) == 1..Len(transcripts)

\* Transcript.query.filter_by(user_id=current_user.id)   (app.py:552)
filter_by_user_id(user) == {i \in 1..Len(transcripts) : transcripts[i].user_id = user}

\* .order_by(Transcript.created_at.desc())   (app.py:553)
RECURSIVE order_by_created_at_desc(_, _)
order_by_created_at_desc(ids, tie) ==
    IF ids = {} THEN <<>>
    ELSE LET first == CHOOSE i \in ids : \A j \in ids :
                          \/ transcripts[i].created_at > transcripts[j].created_at
                          \/ /\ transcripts[i].created_at = transcripts[j].created_at
                             /\ IF tie = "id_asc" THEN i <= j ELSE i >= j
         IN  <<first>> \o order_by_created_at_desc(ids \ {first}, tie)

\* .limit(20)   (app.py:554)
HistoryLimit == 20

limit(rows, n) == SubSeq(rows, 1, MinOf({n, Len(rows)}))

get_history(c, tie) ==
    LET u == current_user[c]
    IN  /\ u # NoUser
        /\ response' = [Reply("history", u, 200, "") EXCEPT
                           !.history = limit(order_by_created_at_desc(filter_by_user_id(u), tie),
                                             HistoryLimit)]
        /\ UNCHANGED <<users, transcripts, current_user, _whisper_model, fmt, sms, threads>>

(***************************************************************************)
(* /history over tables of up to MaxHistoryRows rows, as successive        *)
(* /transcribe requests of the two users leave them: every row the first   *)
(* user's, or every eighth row the second user's; created_at rising        *)
(* with every row, or shared by 2 or 3 successive rows.                    *)
(***************************************************************************)
HistoryRow(i, mixed, shared) ==
    StartRow(IF mixed /\ i % 8 = 0 THEN 2 ELSE 1, <<"u">>, (i + shared - 1) \div shared)

HistoryTables ==
    {[i \in 1..n |-> HistoryRow(i, mixed, shared)] :
        n \in 0..MaxHistoryRows, mixed \in BOOLEAN, shared \in 1..3}

InitHistory ==
    /\ users = StartUsers
    /\ transcripts \in HistoryTables
    /\ current_user = [c \in Clients |-> c]
    /\ _whisper_model = "model"
    /\ response = Reply("none", NoUser, 0, "")
    /\ threads = IdleThreads
    /\ fmt = IdleFmt
    /\ sms = IdleSms

NextHistory == \E c \in Clients, tie \in {"id_asc", "id_desc"} : get_history(c, tie)

SpecHistory == InitHistory /\ [][NextHistory]_vars

(***************************************************************************)
(* Claims about /history, checked under SpecHistory.                       *)
(***************************************************************************)
OwnedBy(user) == {i \in 1..Len(transcripts) : transcripts[i].user_id = user}

Listed(r) == {r.history[k] : k \in 1..Len(r.history)}

\* C13: /history lists only rows of the requesting user, none twice, at most
\* 20 and all of them when the user has at most 20, from the newest created_at
\* to the oldest; no row left out is newer than a listed one.
C13_HistoryNewestTwenty ==
    response.route = "history" =>
        LET h == response.history
            mine == OwnedBy(response.user)
        IN  /\ response.success
            /\ Listed(response) \subseteq mine
            /\ Cardinality(Listed(response)) = Len(h)
            /\ Len(h) = IF Cardinality(mine) > 20 THEN 20 ELSE Cardinality(mine)
            /\ \A k \in 1..(Len(h) - 1) :
                  transcripts[h[k]].created_at >= transcripts[h[k + 1]].created_at
            /\ \A i \in mine \ Listed(response) : \A j \in Listed(response) :
                  transcripts[i].created_at <= transcripts[j].created_at

\* the first user owns 21 of 24 rows, the second the other 3: the first is
\* shown 20 of them, the oldest left out
C13_Witness ==
    /\ response.route = "history" /\ response.user = 1
    /\ Cardinality(OwnedBy(1)) = 21 /\ Cardinality(OwnedBy(2)) = 3
    /\ Len(response.history) = 20
    /\ 1 \notin Listed(response)
    /\ response.history[1] = 23

(***************************************************************************)
(* Exceptions at the handlers' boundary.  A point is a statement of a      *)
(* handler that can raise: request.get_json() and the reads of the body    *)
(* (a body that is not a JSON object, a field that is not a string), a     *)
(* query, a commit.  The exceptions of /transcribe and of the notification *)
(* drivers are inputs of transcribe, send_transcript and send_direct.      *)
(***************************************************************************)
EnvelopeRoutes ==
    {"register", "login", "profile", "get_transcript", "send", "send_direct", "history"}

\* the statements of each handler that can raise, outside the deliveries
raise_points(route) ==
    CASE route = "register" -> {"get_json", "query", "commit"}
      [] route = "login" -> {"get_json", "query"}
      [] route = "profile" -> {"get_json", "commit"}
      [] route = "get_transcript" -> {"query"}
      [] route = "send" -> {"query", "get_json", "commit"}
      [] route = "send_direct" -> {"get_json", "query", "commit"}
      [] route = "history" -> {"query"}

\* whether the statement is inside a try block of its handler: only the
\* delivery branches are   (app.py:415-473, 498-545)
in_try(route, point) == route \in {"send", "send_direct"} /\ point = "commit"

\* @login_required   (app.py:243, 269, 382, 404, 477, 549)
login_required(route) == route \notin {"register", "login"}

\* a request to route whose handler raises at point.  An exception inside a
\* try block is answered with the envelope and status 500; any other leaves
\* the handler, and the framework answers 500 with its own page.  Nothing
\* is committed.  The commit of a delivery comes after the driver returned:
\* the message to (channel, to) has gone out.
handler_raises(c, route, point, channel, to) ==
    LET u == current_user[c]
    IN  /\ login_required(route) => u # NoUser
        /\ point \in raise_points(route)
        /\ response' =
             IF in_try(route, point)
             THEN [Reply(route, u, 500, "Failed to send") EXCEPT
                      !.sent = [channel |-> channel, to |-> to]]
             ELSE [Reply(route, u, 500, "Internal Server Error") EXCEPT !.escaped = TRUE]
        /\ UNCHANGED <<users, transcripts, current_user, _whisper_model, fmt, sms, threads>>

RaiseInputs ==
    {<<route, point, ch, to>> \in
        EnvelopeRoutes \X {"get_json", "query", "commit"} \X {"none", "email"}
                       \X {<<>>, <<"a">>} :
        /\ point \in raise_points(route)
        /\ IF in_try(route, point) THEN ch = "email" /\ to = <<"a">>
                                   ELSE ch = "none" /\ to = <<>>}

\* a carrier that SMS_GATEWAYS does not list
CarrierPayloads == {[phone_carrier |-> <<"i", "d", "e", "a">>]}

NextRaise ==
    \/ NextSend
    \/ \E c \in Clients, i \in RaiseInputs : handler_raises(c, i[1], i[2], i[3], i[4])
    \/ \E d \in CarrierPayloads : update_profile(2, d)
    \/ \E c \in Clients, tie \in {"id_asc", "id_desc"} : get_history(c, tie)

SpecRaise == InitSend /\ [][NextRaise]_vars

\* C11 as stated: every handler catches every exception raised inside it and
\* answers with the envelope {success: false, error}; none reaches the
\* framework.
C11_NoExceptionEscapes ==
    response.route \in EnvelopeRoutes \cup {"transcribe", "logout"} =>
        /\ ~response.escaped
        /\ response.status >= 400 => (~response.success /\ response.error # "")

(***************************************************************************)
(* Claims about the validation of uploads, checked under Spec.             *)
(***************************************************************************)
AllowList ==
    {<<"m", "p", "3">>, <<"w", "a", "v">>, <<"m", "4", "a">>, <<"m", "p", "4">>,
     <<"m", "o", "v">>, <<"w", "e", "b", "m">>}

Dots(name) == {i \in 1..Len(name) : name[i] = "."}

\* the text after the last dot, folded to lower case
ExtensionOf(name) ==
    LET last == MaxOf(Dots(name))
    IN  [k \in 1..(Len(name) - last) |-> FoldCase(name[last + k])]

ExtensionAllowed(name) == Dots(name) # {} /\ ExtensionOf(name) \in AllowList

\* r answers an upload that the handler looked at
UploadSeen(r) ==
    r.route = "transcribe" /\ r.source.kind = "file" /\ r.stages # <<>>

RanAfterScratch(r) == StageSet(r) \ {"scratch-created", "scratch-cleaned"}

\* C12: an upload whose extension, the text after the last dot of its name
\* compared ignoring case, is outside the allow-list, or whose name has no
\* dot, is answered 400 with nothing run between creating and cleaning the
\* scratch directory, and adds no row; an upload whose extension is in the
\* list is taken by saving the file, never by the download step, and once
\* saved goes on to normalization.
C12_UploadValidation ==
    /\ [](  /\ (UploadSeen(response) /\ ~ExtensionAllowed(response.source.name)) =>
                  /\ response.status = 400
                  /\ ~response.success /\ response.error # ""
                  /\ response.failed_at = "validation"
                  /\ RanAfterScratch(response) = {}
                  /\ response.acquired_by = ""
                  /\ response.body = NoBody
            /\ (UploadSeen(response) /\ ExtensionAllowed(response.source.name)) =>
                  /\ response.failed_at # "validation"
                  /\ response.acquired_by = "file.save"
                  /\ "media-acquired" \in StageSet(response) =>
                        \/ "audio-normalized" \in StageSet(response)
                        \/ response.failed_at = "normalization")
    /\ [][ (UploadSeen(response') /\ ~ExtensionAllowed(response'.source.name)) =>
              transcripts' = transcripts ]_vars

\* an upload named a.MP3 was accepted and transcribed
C12_Witness ==
    /\ UploadSeen(response)
    /\ response.source.name = <<"a", ".", "M", "P", "3">>
    /\ response.success
    /\ response.acquired_by = "file.save"

\* an upload named .mp3.e was rejected, with a transcript already in the table
C12_WitnessRejected ==
    /\ UploadSeen(response)
    /\ response.source.name = <<".", "m", "p", "3", ".", "e">>
    /\ response.status = 400
    /\ Len(transcripts) > 0

(***************************************************************************)
(* transcribe_audio and get_whisper_model (app.py:49-57, 142-146), one     *)
(* statement at a time, for requests served by threads at the same time    *)
(* (app.run serves each request on a thread of its own, app.py:590).       *)
(* Nothing orders the test of _whisper_model against another thread's      *)
(* assignment to it.                                                       *)
(***************************************************************************)
at(t, pc) == threads.thread[t].pc = pc

goto(t, pc) == [threads EXCEPT !.thread[t].pc = pc]

\* model = get_whisper_model(): the call   (app.py:144)
call_get_whisper_model(t) ==
    /\ at(t, "idle")
    /\ threads' = goto(t, "test")
    /\ UNCHANGED <<users, transcripts, current_user, _whisper_model, response, fmt, sms>>

\* if _whisper_model is None:   (app.py:52)
test_model(t) ==
    /\ at(t, "test")
    /\ threads' = goto(t, IF _whisper_model = "None" THEN "load" ELSE "return")
    /\ UNCHANGED <<users, transcripts, current_user, _whisper_model, response, fmt, sms>>

\* _whisper_model = whisper.load_model(WHISPER_MODEL)   (app.py:55); when the
\* load raises, the request ends and the variable keeps its value
load_model(t, ok) ==
    /\ at(t, "load")
    /\ IF ok
       THEN /\ _whisper_model' = "model"
            /\ threads' = [goto(t, "return") EXCEPT
                              !.load_count = @ + 1, !.loaded = threads.load_count + 1]
       ELSE /\ threads' = goto(t, "idle")
            /\ UNCHANGED _whisper_model
    /\ UNCHANGED <<users, transcripts, current_user, response, fmt, sms>>

\* return _whisper_model   (app.py:57)
return_model(t) ==
    /\ at(t, "return")
    /\ threads' = [goto(t, "transcribe") EXCEPT !.thread[t].model = threads.loaded]
    /\ UNCHANGED <<users, transcripts, current_user, _whisper_model, response, fmt, sms>>

\* result = model.transcribe(audio_path, language=None)   (app.py:145)
model_transcribe(t) ==
    /\ at(t, "transcribe")
    /\ threads' = goto(t, "idle")
    /\ UNCHANGED <<users, transcripts, current_user, _whisper_model, response, fmt, sms>>

NextModel ==
    \/ \E t \in Threads : call_get_whisper_model(t)
    \/ \E t \in Threads : test_model(t)
    \/ \E t \in Threads, ok \in BOOLEAN : load_model(t, ok)
    \/ \E t \in Threads : return_model(t)
    \/ \E t \in Threads : model_transcribe(t)

SpecModel == Init /\ [][NextModel]_vars

\* C14 as stated: whatever the interleaving of the requests, the model is
\* loaded at most once, not before a transcription asks for it, and every
\* transcription runs on that one model object.
C14_LoadedOnce ==
    /\ threads.load_count <= 1
    /\ (_whisper_model = "None") = (threads.load_count = 0)
    /\ \A t \in Threads : at(t, "transcribe") => threads.thread[t].model = 1

(***************************************************************************)
(* Claims about the order of the stages of a request, checked under Spec.  *)
(***************************************************************************)
StageOrder ==
    <<"scratch-created", "media-acquired", "audio-normalized", "transcribed", "formatted",
      "persisted">>

\* the first k stages, then the cleanup
ThroughStage(k) == SubSeq(StageOrder, 1, k) \o <<"scratch-cleaned">>

InStageOrder(r) ==
    \E k \in 1..Len(StageOrder) :
        r.stages = ThroughStage(k) /\ (r.success <=> k = Len(StageOrder))

\* C15 as stated: every /transcribe request runs the stages in their order,
\* each once, from scratch-created on, and after a failure goes straight to
\* scratch-cleaned.
C15_StagesInOrder == Transcribed => InStageOrder(response)

\* C15, amended: a /transcribe request whose scratch directory could be
\* created runs the stages in their order, each once, and after a failure goes
\* straight to scratch-cleaned; one whose scratch directory could not be
\* created enters no stage, scratch-cleaned included, and fails.
C15_StagesInOrderOnceCreated ==
    Transcribed =>
        IF response.failed_at = "scratch"
        THEN response.stages = <<>> /\ ~response.success /\ response.status = 500
        ELSE InStageOrder(response)

\* a request that went through every stage, after one already had
C15_Witness ==
    /\ Transcribed
    /\ response.stages = ThroughStage(6)
    /\ response.tid = 2

\* a request whose scratch directory could not be created
C15_WitnessNoScratch ==
    /\ Transcribed
    /\ response.failed_at = "scratch"
    /\ response.stages = <<>>

(***************************************************************************)
(* Claims about failed deliveries, checked under SpecRaise.                *)
(***************************************************************************)
FlagNames == {"sent_email", "sent_sms", "sent_whatsapp"}

====
